---- MODULE Spec2Model ----
(***************************************************************************)
(* The plugin cache of pkg/workspace/plugins.go: directory naming and      *)
(* parsing, the scan of the cache root, version-aware resolution with the  *)
(* $PATH override, and archive installation and deletion.                  *)
(*                                                                         *)
(* Strings whose characters the code inspects (directory names, version    *)
(* strings) are sequences of one-character strings, so that formatting,    *)
(* the regular expression, the semver parser and the byte-wise sort of     *)
(* ioutil.ReadDir are computed rather than assumed.                        *)
(***************************************************************************)
EXTENDS Integers, Sequences, FiniteSets, TLC

VARIABLES
    fs,     \* the children of the cache root: entry name -> node
    call    \* the last call made on the package and what it returned

vars == <<fs, call>>

----------------------------------------------------------------------------
(* Characters and strings.                                                 *)

Digits == <<"0", "1", "2", "3", "4", "5", "6", "7", "8", "9">>

Lowers == <<"a", "b", "c", "d", "e", "f", "g", "h", "i", "j", "k", "l", "m",
            "n", "o", "p", "q", "r", "s", "t", "u", "v", "w", "x", "y", "z">>

Uppers == <<"A", "B", "C", "D", "E", "F", "G", "H", "I", "J", "K", "L", "M",
            "N", "O", "P", "Q", "R", "S", "T", "U", "V", "W", "X", "Y", "Z">>

Range(s) == {s[i] : i \in 1..Len(s)}

IsDigit(c) == c \in Range(Digits)
IsLower(c) == c \in Range(Lowers)
IsUpper(c) == c \in Range(Uppers)
IsAlnum(c) == IsDigit(c) \/ IsLower(c) \/ IsUpper(c)

IndexOf(s, c) == CHOOSE i \in 1..Len(s) : s[i] = c

\* The byte value of a character (Go compares strings byte-wise).
Ord(c) ==
    CASE c = "+" -> 43
      [] c = "-" -> 45
      [] c = "." -> 46
      [] c = "_" -> 95
      [] IsDigit(c) -> 47 + IndexOf(Digits, c)
      [] IsUpper(c) -> 64 + IndexOf(Uppers, c)
      [] IsLower(c) -> 96 + IndexOf(Lowers, c)

\* a < b on Go strings.
StrLess(a, b) ==
    \E i \in 1..(Len(a) + 1) :
        /\ i <= Len(b)
        /\ \A j \in 1..(i - 1) : a[j] = b[j]
        /\ \/ i = Len(a) + 1
           \/ Ord(a[i]) < Ord(b[i])

\* The part of s after its first n characters.
Drop(s, n) == SubSeq(s, n + 1, Len(s))

\* strings.IndexRune: the first position of c in s, 0 when there is none.
IndexRune(s, c) ==
    IF c \in Range(s) THEN CHOOSE i \in 1..Len(s) : s[i] = c /\ \A j \in 1..(i - 1) : s[j] # c
    ELSE 0

RECURSIVE Split(_, _)
\* strings.Split(s, sep) for a one-character separator.
Split(s, c) ==
    LET i == IndexRune(s, c)
    IN  IF i = 0 THEN <<s>> ELSE <<SubSeq(s, 1, i - 1)>> \o Split(Drop(s, i), c)

RECURSIVE SplitN(_, _, _)
\* strings.SplitN(s, sep, n), n >= 1: at most n parts, the last one unsplit.
SplitN(s, c, n) ==
    LET i == IndexRune(s, c)
    IN  IF n <= 1 \/ i = 0 THEN <<s>>
        ELSE <<SubSeq(s, 1, i - 1)>> \o SplitN(Drop(s, i), c, n - 1)

RECURSIVE Join(_, _)
\* strings.Join(parts, sep).
Join(parts, sep) ==
    IF Len(parts) = 0 THEN <<>>
    ELSE IF Len(parts) = 1 THEN parts[1]
    ELSE parts[1] \o sep \o Join(Tail(parts), sep)

RECURSIVE Itoa(_)
\* strconv.FormatUint(n, 10).
Itoa(n) ==
    IF n < 10 THEN <<Digits[n + 1]>>
    ELSE Itoa(n \div 10) \o <<Digits[(n % 10) + 1]>>

RECURSIVE Atoi(_)
\* strconv.ParseUint(s, 10, 64) of a string of digits.
Atoi(s) ==
    IF Len(s) = 0 THEN 0
    ELSE Atoi(SubSeq(s, 1, Len(s) - 1)) * 10 + (IndexOf(Digits, s[Len(s)]) - 1)

----------------------------------------------------------------------------
(* github.com/blang/semver, as the package uses it: Version, String,       *)
(* ParseTolerant and the comparisons GT and GTE.                           *)

\* A *semver.Version is the sequence of what it points at: empty for nil, one
\* version otherwise.
NilVersion == <<>>
VersionPtr(v) == <<v>>

\* semver.Version{Major, Minor, Patch, Pre, Build}.
MkVersion(major, minor, patch, pre, build) ==
    [Major |-> major, Minor |-> minor, Patch |-> patch, Pre |-> pre, Build |-> build]

\* semver.PRVersion: a numeric or an alphanumeric prerelease identifier.
PRNum(n) == [VersionStr |-> <<>>, VersionNum |-> n, IsNum |-> TRUE]
PRStr(s) == [VersionStr |-> s, VersionNum |-> 0, IsNum |-> FALSE]

PRString(pr) == IF pr.IsNum THEN Itoa(pr.VersionNum) ELSE pr.VersionStr

\* Version.String(): "M.m.p", then "-" and the prerelease identifiers, then
\* "+" and the build identifiers, each list joined by dots.
VersionString(v) ==
    Itoa(v.Major) \o <<".">> \o Itoa(v.Minor) \o <<".">> \o Itoa(v.Patch)
    \o (IF Len(v.Pre) > 0
        THEN <<"-">> \o Join([i \in 1..Len(v.Pre) |-> PRString(v.Pre[i])], <<".">>)
        ELSE <<>>)
    \o (IF Len(v.Build) > 0 THEN <<"+">> \o Join(v.Build, <<".">>) ELSE <<>>)

ContainsOnlyDigits(s) == \A i \in 1..Len(s) : IsDigit(s[i])
ContainsOnlyAlnumHyphen(s) == \A i \in 1..Len(s) : IsAlnum(s[i]) \/ s[i] = "-"
HasLeadingZeroes(s) == Len(s) > 1 /\ s[1] = "0"

\* A numeric component: digits only, non-empty, no leading zero.
NumericOK(s) == Len(s) > 0 /\ ContainsOnlyDigits(s) /\ ~HasLeadingZeroes(s)

\* semver.NewPRVersion accepts s.
PRVersionOK(s) ==
    /\ Len(s) > 0
    /\ ContainsOnlyAlnumHyphen(s)
    /\ (ContainsOnlyDigits(s) => ~HasLeadingZeroes(s))

NewPRVersion(s) == IF ContainsOnlyDigits(s) THEN PRNum(Atoi(s)) ELSE PRStr(s)

\* The zero Version that comes with an error.
BadVersion == [ok |-> FALSE, v |-> MkVersion(0, 0, 0, <<>>, <<>>)]

\* s cut at position i, the first index of a separator (0 for none): what is
\* before it, and the dot-separated identifiers after it.
CutIdentifiers(s, i) ==
    [head |-> IF i # 0 THEN SubSeq(s, 1, i - 1) ELSE s,
     ids  |-> IF i # 0 THEN Split(Drop(s, i), ".") ELSE <<>>]

\* The checks of semver.Parse on the separated fields, and the Version built.
SemverFields(major, minor, patchStr, pre, build) ==
    IF ~NumericOK(major) \/ ~NumericOK(minor) \/ ~NumericOK(patchStr) THEN BadVersion
    ELSE IF \E i \in 1..Len(pre) : ~PRVersionOK(pre[i]) THEN BadVersion
    ELSE IF \E i \in 1..Len(build) :
                Len(build[i]) = 0 \/ ~ContainsOnlyAlnumHyphen(build[i]) THEN BadVersion
    ELSE [ok |-> TRUE,
          v  |-> MkVersion(Atoi(major), Atoi(minor), Atoi(patchStr),
                           [i \in 1..Len(pre) |-> NewPRVersion(pre[i])], build)]

\* The third part without its build metadata b.ids: cut at the first "-".
SemverPatch(major, minor, b, p) == SemverFields(major, minor, p.head, p.ids, b.ids)

\* The third part cut at the first "+".
SemverBuild(major, minor, b) ==
    SemverPatch(major, minor, b, CutIdentifiers(b.head, IndexRune(b.head, "-")))

\* The parts of strings.SplitN(s, ".", 3): there must be three.
SemverParts(parts) ==
    IF Len(parts) # 3 THEN BadVersion
    ELSE SemverBuild(parts[1], parts[2], CutIdentifiers(parts[3], IndexRune(parts[3], "+")))

\* semver.Parse: [ok, v]. Major and minor are the first two dot-separated
\* parts; the third part is the patch, cut at the first "+" (build) and then at
\* the first "-" (prerelease).
SemverParse(s) ==
    IF Len(s) = 0 THEN BadVersion ELSE SemverParts(SplitN(s, ".", 3))

\* strings.TrimPrefix(s, "v").
TrimPrefixV(s) == IF Len(s) > 0 /\ s[1] = "v" THEN Tail(s) ELSE s

\* parts with "0" appended until there are three.
PadParts(parts) ==
    IF Len(parts) = 1 THEN parts \o <<<<"0">>, <<"0">>>> ELSE parts \o <<<<"0">>>>

\* ParseTolerant once s has lost its prefix and has been split.
ParseTolerantParts(s, parts) ==
    IF Len(parts) < 3 /\ ("+" \in Range(parts[Len(parts)]) \/ "-" \in Range(parts[Len(parts)]))
    THEN BadVersion
    ELSE SemverParse(IF Len(parts) < 3 THEN Join(PadParts(parts), <<".">>) ELSE s)

\* semver.ParseTolerant: drops a leading "v", pads a short version that has no
\* prerelease or build part with ".0", then parses strictly.
ParseTolerant(s0) == ParseTolerantParts(TrimPrefixV(s0), SplitN(TrimPrefixV(s0), ".", 3))

\* PRVersion.Compare: -1, 0 or 1. A numeric identifier is below an
\* alphanumeric one.
PRCompare(a, b) ==
    IF a.IsNum /\ ~b.IsNum THEN -1
    ELSE IF ~a.IsNum /\ b.IsNum THEN 1
    ELSE IF a.IsNum /\ b.IsNum
         THEN (IF a.VersionNum = b.VersionNum THEN 0
               ELSE IF a.VersionNum > b.VersionNum THEN 1 ELSE -1)
    ELSE IF a.VersionStr = b.VersionStr THEN 0
    ELSE IF StrLess(b.VersionStr, a.VersionStr) THEN 1 ELSE -1

RECURSIVE PreCompare(_, _, _)
RECURSIVE PreCompareAt(_, _, _, _)
\* The loop of Version.Compare over the prerelease identifiers, from index i.
PreCompare(p, q, i) ==
    IF i <= Len(p) /\ i <= Len(q)
    THEN PreCompareAt(p, q, i, PRCompare(p[i], q[i]))
    ELSE IF i > Len(p) /\ i > Len(q) THEN 0
    ELSE IF i > Len(p) THEN -1
    ELSE 1

\* One step of that loop, c being the comparison of the identifiers at i.
PreCompareAt(p, q, i, c) == IF c = 0 THEN PreCompare(p, q, i + 1) ELSE c

\* Version.Compare: build metadata is ignored; a version without a prerelease
\* is above the same version with one.
VersionCompare(v, o) ==
    IF v.Major # o.Major THEN (IF v.Major > o.Major THEN 1 ELSE -1)
    ELSE IF v.Minor # o.Minor THEN (IF v.Minor > o.Minor THEN 1 ELSE -1)
    ELSE IF v.Patch # o.Patch THEN (IF v.Patch > o.Patch THEN 1 ELSE -1)
    ELSE IF Len(v.Pre) = 0 /\ Len(o.Pre) = 0 THEN 0
    ELSE IF Len(v.Pre) = 0 THEN 1
    ELSE IF Len(o.Pre) = 0 THEN -1
    ELSE PreCompare(v.Pre, o.Pre, 1)

VersionGT(v, o) == VersionCompare(v, o) = 1
VersionGTE(v, o) == VersionCompare(v, o) >= 0

----------------------------------------------------------------------------
(* Plugin kinds and the naming scheme.                                     *)

AnalyzerPlugin == <<"a", "n", "a", "l", "y", "z", "e", "r">>
LanguagePlugin == <<"l", "a", "n", "g", "u", "a", "g", "e">>
ResourcePlugin == <<"r", "e", "s", "o", "u", "r", "c", "e">>

PluginKinds == {AnalyzerPlugin, LanguagePlugin, ResourcePlugin}

IsPluginKind(k) == k \in PluginKinds

\* A PluginInfo as a caller builds it: kind, name and an optional version.
Descriptor(kind, name, version) == [Kind |-> kind, Name |-> name, Version |-> version]

\* PluginInfo.Dir: "<kind>-<name>", then "-v<version>" when there is a version.
Dir(info) ==
    LET dir == info.Kind \o <<"-">> \o info.Name
    IN  IF info.Version # NilVersion
        THEN dir \o <<"-", "v">> \o VersionString(info.Version[1])
        ELSE dir

\* runtime.GOOS of the build.
GOOS == "linux"

FileSuffix == IF GOOS = "windows" THEN <<".", "e", "x", "e">> ELSE <<>>

\* PluginInfo.FilePrefix: "pulumi-<kind>-<name>".
FilePrefix(info) ==
    <<"p", "u", "l", "u", "m", "i", "-">> \o info.Kind \o <<"-">> \o info.Name

\* PluginInfo.File.
File(info) == FilePrefix(info) \o FileSuffix

----------------------------------------------------------------------------
(* pluginRegexp and tryPlugin.                                             *)

\* The class [a-zA-Z0-9-] of the name group.
IsNameChar(c) == IsAlnum(c) \/ c = "-"

\* The class [a-zA-Z0-9-_.] of the version's optional suffix.
IsSuffixChar(c) == IsAlnum(c) \/ c = "-" \/ c = "_" \/ c = "."

\* The automaton of  [0-9]+.[0-9]+.[0-9]+(-[a-zA-Z0-9-_.]+)?  : the states a
\* character leads to from state q. The dots of the pattern are unescaped and
\* match any character. States 5 and 7 accept.
VersionDelta(q, c) ==
    CASE q = 0 -> IF IsDigit(c) THEN {1} ELSE {}
      [] q = 1 -> (IF IsDigit(c) THEN {1} ELSE {}) \cup {2}
      [] q = 2 -> IF IsDigit(c) THEN {3} ELSE {}
      [] q = 3 -> (IF IsDigit(c) THEN {3} ELSE {}) \cup {4}
      [] q = 4 -> IF IsDigit(c) THEN {5} ELSE {}
      [] q = 5 -> (IF IsDigit(c) THEN {5} ELSE {}) \cup (IF c = "-" THEN {6} ELSE {})
      [] q = 6 -> IF IsSuffixChar(c) THEN {7} ELSE {}
      [] q = 7 -> IF IsSuffixChar(c) THEN {7} ELSE {}

RECURSIVE VersionRun(_, _, _)
VersionRun(Q, t, i) ==
    IF i > Len(t) \/ Q = {} THEN Q
    ELSE VersionRun(UNION {VersionDelta(q, t[i]) : q \in Q}, t, i + 1)

\* t, taken to its end, matches the version group.
VersionGroupMatches(t) == VersionRun({0}, t, 1) \cap {5, 7} # {}

\* FindStringSubmatch with a lazy name group: the name ends at the first place
\* it may end.
FindStringSubmatch_LazyName(s) ==
    LET k    == IndexRune(s, "-")
        ends == {j \in (k + 1)..(Len(s) - 2) :
                    /\ \A i \in (k + 1)..j : IsNameChar(s[i])
                    /\ IsAlnum(s[j])
                    /\ s[j + 1] = "-"
                    /\ s[j + 2] = "v"
                    /\ VersionGroupMatches(Drop(s, j + 2))}
        e    == CHOOSE j \in ends : \A j2 \in ends : j <= j2
    IN  IF k > 1 /\ (\A i \in 1..(k - 1) : IsLower(s[i])) /\ ends # {}
        THEN [ok |-> TRUE, Kind |-> SubSeq(s, 1, k - 1), Name |-> SubSeq(s, k + 1, e),
              Version |-> Drop(s, e + 2)]
        ELSE [ok |-> FALSE, Kind |-> <<>>, Name |-> <<>>, Version |-> <<>>]

\* The places where the name group may end when the kind group ends before
\* position k: before a "-v" that a match of the version group follows up to
\* the end of s.
NameEnds(s, k) ==
    {j \in (k + 1)..(Len(s) - 2) :
        /\ \A i \in (k + 1)..j : IsNameChar(s[i])
        /\ IsAlnum(s[j])
        /\ s[j + 1] = "-"
        /\ s[j + 2] = "v"
        /\ VersionGroupMatches(Drop(s, j + 2))}

\* The last of a non-empty set of positions.
LastEnd(ends) == CHOOSE j \in ends : \A j2 \in ends : j2 <= j

\* The submatches, the name group ending at position e.
Submatches(s, k, e) ==
    [ok |-> TRUE, Kind |-> SubSeq(s, 1, k - 1), Name |-> SubSeq(s, k + 1, e),
     Version |-> Drop(s, e + 2)]

\* The match, k being the first hyphen of s and ends the places where the name
\* may end.
SubmatchAt(s, k, ends) ==
    IF k > 1 /\ (\A i \in 1..(k - 1) : IsLower(s[i])) /\ ends # {}
    THEN Submatches(s, k, LastEnd(ends))
    ELSE [ok |-> FALSE, Kind |-> <<>>, Name |-> <<>>, Version |-> <<>>]

\* pluginRegexp.FindStringSubmatch(s): [ok, Kind, Name, Version]. The kind
\* group [a-z]+ ends at the first hyphen. The name group is greedy: of the
\* places where a name may end (before a "-v" that is followed by a match of the
\* version group up to the end), the match takes the last one.
FindStringSubmatch(s) == SubmatchAt(s, IndexRune(s, "-"), NameEnds(s, IndexRune(s, "-")))

\* An os.FileInfo of a child of the cache root.
FileInfo(name, isDir) == [Name |-> name, IsDir |-> isDir]

\* What tryPlugin returns for "not a plugin".
NotAPlugin ==
    [Kind |-> <<>>, Name |-> <<>>, Version |-> MkVersion(0, 0, 0, <<>>, <<>>), ok |-> FALSE]

\* The end of tryPlugin: the kind is known, the name is not empty and ver, the
\* result of semver.ParseTolerant on the version text, is a version.
tryPluginVersion(match, ver) ==
    IF ~IsPluginKind(match.Kind) \/ match.Name = <<>> \/ ~ver.ok THEN NotAPlugin
    ELSE [Kind |-> match.Kind, Name |-> match.Name, Version |-> ver.v, ok |-> TRUE]

\* tryPlugin on a directory, match being what pluginRegexp finds in its name.
tryPluginMatch(match) ==
    IF ~match.ok THEN NotAPlugin
    ELSE tryPluginVersion(match, ParseTolerant(match.Version))

\* tryPlugin without its test for a directory.
tryPlugin_AnyEntry(file) == tryPluginMatch(FindStringSubmatch(file.Name))

\* tryPlugin: only a directory whose name matches pluginRegexp, with a known
\* kind and a version that semver.ParseTolerant accepts, is a plugin.
tryPlugin(file) ==
    IF ~file.IsDir THEN NotAPlugin ELSE tryPluginMatch(FindStringSubmatch(file.Name))

----------------------------------------------------------------------------
(* The cache root and its children.                                        *)
(*                                                                         *)
(* fs maps the name of each child of the cache root to its node: a plain   *)
(* file, or a directory with the tree below it. A tree maps a path, given  *)
(* as the sequence of its components, to a directory or to a regular file  *)
(* with its bytes. The cache root itself exists once something created it. *)

\* The path GetPluginDir returns, kept symbolic: the home directory and the two
\* path segments joined to it are fixed outside the files modelled here.
PluginDirRoot == <<"<plugins>">>

\* filepath.Join of two clean, non-empty paths.
PathJoin(a, b) == a \o <<"/">> \o b

TreeDir == [type |-> "dir", data |-> <<>>]
TreeFile(data) == [type |-> "file", data |-> data]
\* A subdirectory that ioutil.ReadDir cannot read (no permission).
TreeLocked == [type |-> "locked", data |-> <<>>]

EmptyTree == [p \in {} |-> TreeDir]

PlainFile == [IsDir |-> FALSE, tree |-> EmptyTree]
Directory(tree) == [IsDir |-> TRUE, tree |-> tree]

\* The failures of the environment a call can meet: user.Current fails (no
\* cache root can be named), or reading the cache root fails with an I/O error
\* other than "does not exist", or the cache root does not exist (nothing has
\* created it yet).
NoFailure == "none"
UserFailure == "user"
ReadDirFailure == "readdir"
RootMissing == "notexist"

\* GetPluginDir: the root, or an error when the current user cannot be found.
GetPluginDir(fail) ==
    IF fail = UserFailure THEN [err |-> "getting user home directory", dir |-> <<>>]
    ELSE [err |-> "nil", dir |-> PluginDirRoot]

\* PluginInfo.DirPath.
DirPath(info, fail) ==
    LET root == GetPluginDir(fail)
    IN  IF root.err # "nil" THEN [err |-> root.err, path |-> <<>>]
        ELSE [err |-> "nil", path |-> PathJoin(root.dir, Dir(info))]

\* The end of FilePath, dir being what DirPath returned.
FilePathIn(dir, info) ==
    IF dir.err # "nil" THEN [err |-> dir.err, path |-> <<>>]
    ELSE [err |-> "nil", path |-> PathJoin(dir.path, File(info))]

\* PluginInfo.FilePath.
FilePath(info, fail) == FilePathIn(DirPath(info, fail), info)

\* The names of a set in increasing byte order: the name at index i has i - 1
\* names of the set below it.
SortNames(S) ==
    [i \in 1..Cardinality(S) |->
        CHOOSE x \in S : Cardinality({y \in S : StrLess(y, x)}) = i - 1]

\* The os.FileInfo of each name, in the order of names.
FileInfos(f, names) == [i \in 1..Len(names) |-> FileInfo(names[i], f[names[i]].IsDir)]

\* ioutil.ReadDir(root): the entries sorted by file name. A root that does not
\* exist gives an error for which os.IsNotExist holds.
ReadDir(f, fail) ==
    IF fail = ReadDirFailure THEN [err |-> "io", files |-> <<>>]
    ELSE IF fail = RootMissing THEN [err |-> "not exist", files |-> <<>>]
    ELSE [err |-> "nil", files |-> FileInfos(f, SortNames(DOMAIN f))]

RECURSIVE SumSizes(_, _)
SumSizes(tree, paths) ==
    IF paths = {} THEN 0
    ELSE LET p == CHOOSE q \in paths : TRUE
         IN  (IF tree[p].type = "file" THEN Len(tree[p].data) ELSE 0)
             + SumSizes(tree, paths \ {p})

\* getPluginSize without the descent into subdirectories.
getPluginSize_TopLevelOnly(tree) == SumSizes(tree, {p \in DOMAIN tree : Len(p) = 1})

\* getPluginSize: the byte lengths of the regular files below a directory;
\* directories add nothing themselves.
getPluginSize(tree) == SumSizes(tree, DOMAIN tree)

\* SetFileMetadata on a plugin directory that is present: the size. (The file
\* times it also records are read by no operation of the package.)
SetFileMetadata(plugin, node) ==
    [plugin EXCEPT !.Size = getPluginSize(node.tree)]

\* The error of getPluginSize on a plugin directory: the error of ioutil.ReadDir
\* on a subdirectory it cannot read, which is not an os.IsNotExist error.
getPluginSizeErr(tree) ==
    IF \E p \in DOMAIN tree : tree[p].type = "locked" THEN "permission denied" ELSE "nil"

\* The error of SetFileMetadata on a plugin directory that is present.
SetFileMetadataErr(node) ==
    IF getPluginSizeErr(node.tree) # "nil" THEN "getting plugin dir size" ELSE "nil"

\* The error that ends the loop of GetPlugins: the one of SetFileMetadata on
\* an entry that tryPlugin accepts, "nil" when there is none.
ScanError(f, files) ==
    IF \E i \in 1..Len(files) :
            /\ SetFileMetadataErr(f[files[i].Name]) # "nil"
            /\ tryPlugin(files[i]).ok
    THEN "getting plugin dir size"
    ELSE "nil"

\* One iteration of the loop of GetPlugins, p being what tryPlugin returned for
\* the entry: the PluginInfo appended, if any.
ScanEntry(f, file, p) ==
    IF p.ok
    THEN <<SetFileMetadata([Name |-> p.Name, Kind |-> p.Kind,
                            Version |-> VersionPtr(p.Version), Size |-> 0],
                           f[file.Name])>>
    ELSE <<>>

RECURSIVE ScanFiles(_, _, _)
\* The loop of GetPlugins over the sorted entries: what tryPlugin accepts
\* becomes a PluginInfo with its metadata, in the order of the entries.
ScanFiles(f, files, i) ==
    IF i > Len(files) THEN <<>>
    ELSE ScanEntry(f, files[i], tryPlugin(files[i])) \o ScanFiles(f, files, i + 1)

\* ScanRoot taking every error of ioutil.ReadDir for a missing root.
ScanRoot_ErrorsAsEmpty(f, files) ==
    IF files.err # "nil" THEN [err |-> "nil", plugins |-> <<>>]
    ELSE IF ScanError(f, files.files) # "nil"
    THEN [err |-> ScanError(f, files.files), plugins |-> <<>>]
    ELSE [err |-> "nil", plugins |-> ScanFiles(f, files.files, 1)]

\* GetPlugins from the result of ioutil.ReadDir on: an error for which
\* os.IsNotExist holds gives no plugins and no error, and an error of
\* SetFileMetadata on a plugin ends the scan with that error.
ScanRoot(f, files) ==
    IF files.err = "not exist" THEN [err |-> "nil", plugins |-> <<>>]
    ELSE IF files.err # "nil" THEN [err |-> files.err, plugins |-> <<>>]
    ELSE IF ScanError(f, files.files) # "nil"
    THEN [err |-> ScanError(f, files.files), plugins |-> <<>>]
    ELSE [err |-> "nil", plugins |-> ScanFiles(f, files.files, 1)]

\* GetPlugins: [err, plugins].
GetPlugins(f, fail) ==
    IF GetPluginDir(fail).err # "nil"
    THEN [err |-> GetPluginDir(fail).err, plugins |-> <<>>]
    ELSE ScanRoot(f, ReadDir(f, fail))

\* HasPlugin: os.Stat of the plugin's directory path succeeds.
HasPlugin(f, plug, fail) ==
    /\ DirPath(plug, fail).err = "nil"
    /\ Dir(plug) \in DOMAIN f

\* The loop of HasPluginGTE over the scanned plugins.
AnyGTE(plugins, plug) ==
    \E i \in 1..Len(plugins) :
        /\ plugins[i].Name = plug.Name
        /\ plugins[i].Kind = plug.Kind
        /\ plugins[i].Version # NilVersion
        /\ plug.Version # NilVersion
        /\ VersionGTE(plugins[i].Version[1], plug.Version[1])

\* HasPluginGTE when no directory has the plugin's exact name, plugs being what
\* GetPlugins returned.
HasGTEIn(plugs, plug) ==
    IF plugs.err # "nil" THEN [ok |-> FALSE, err |-> plugs.err]
    ELSE [ok |-> AnyGTE(plugs.plugins, plug), err |-> "nil"]

\* HasPluginGTE comparing the name and the version only, not the kind.
HasPluginGTE_AnyKind(f, plug, fail) ==
    LET plugs == GetPlugins(f, fail)
    IN  IF HasPlugin(f, plug, fail) THEN [ok |-> TRUE, err |-> "nil"]
        ELSE IF plugs.err # "nil" THEN [ok |-> FALSE, err |-> plugs.err]
        ELSE [ok  |-> \E i \in 1..Len(plugs.plugins) :
                        LET p == plugs.plugins[i]
                        IN  /\ p.Name = plug.Name
                            /\ p.Version # NilVersion
                            /\ plug.Version # NilVersion
                            /\ VersionGTE(p.Version[1], plug.Version[1]),
              err |-> "nil"]

\* HasPluginGTE: [ok, err].
HasPluginGTE(f, plug, fail) ==
    IF HasPlugin(f, plug, fail) THEN [ok |-> TRUE, err |-> "nil"]
    ELSE HasGTEIn(GetPlugins(f, fail), plug)

----------------------------------------------------------------------------
(* GetPluginPath.                                                          *)

\* exec.LookPath(filename) when the executable is on $PATH: the path found.
LookPathResult(filename) == <<"<$PATH>">> \o <<"/">> \o filename

\* The value the range variable `plugin` of the loop holds while iteration i
\* runs. The loop declares one variable for all its iterations (the for-range
\* rule of the Go releases this code builds with), and each iteration assigns
\* the next element to it.
LoopVar(plugins, i) == plugins[i]

\* What `match` points at when it is read with the loop variable holding the
\* element of index i: every non-nil value of match is &plugin, the address of
\* the one loop variable.
Deref(match, plugins, i) == LoopVar(plugins, i)

\* The candidate m one iteration picks: "&plugin" or "nil".
Candidate(plugin, match, matchVal, kind, name, version) ==
    IF ~(plugin.Kind = kind /\ plugin.Name = name) THEN "nil"
    ELSE IF match = "nil" /\ version = NilVersion THEN "&plugin"
    ELSE IF match # "nil"
            /\ (matchVal.Version = NilVersion
                \/ (plugin.Version # NilVersion
                    /\ VersionGT(plugin.Version[1], matchVal.Version[1])))
         THEN "&plugin"
    ELSE IF version # NilVersion /\ plugin.Version # NilVersion
            /\ VersionGTE(plugin.Version[1], version[1])
         THEN "&plugin"
    ELSE "nil"

\* `if m != nil { match = m }`.
NextMatch(match, m) == IF m # "nil" THEN m ELSE match

RECURSIVE MatchLoop(_, _, _, _, _, _)
\* The loop of GetPluginPath from iteration i on, match being its value so far:
\* the value of match when the loop ends.
MatchLoop(plugins, kind, name, version, i, match) ==
    IF i > Len(plugins) THEN match
    ELSE MatchLoop(plugins, kind, name, version, i + 1,
                   NextMatch(match, Candidate(LoopVar(plugins, i), match,
                                              Deref(match, plugins, i),
                                              kind, name, version)))

\* The return for a match, matchDir and matchPath being what DirPath and
\* FilePath returned for it.
MatchResult(matchDir, matchPath) ==
    IF matchDir.err # "nil" THEN [dir |-> <<>>, path |-> <<>>, err |-> matchDir.err]
    ELSE IF matchPath.err # "nil" THEN [dir |-> <<>>, path |-> <<>>, err |-> matchPath.err]
    ELSE [dir |-> matchDir.path, path |-> matchPath.path, err |-> "nil"]

\* The end of GetPluginPath returning, when the loop adopted anything, the
\* scanned plugin of the greatest version.
ResolveMatch_Greatest(plugins, match, fail) ==
    IF match # "nil"
    THEN LET g == CHOOSE i \in 1..Len(plugins) :
                      \A j \in 1..Len(plugins) :
                          ~VersionGT(plugins[j].Version[1], plugins[i].Version[1])
         IN  MatchResult(DirPath(plugins[g], fail), FilePath(plugins[g], fail))
    ELSE [dir |-> <<>>, path |-> <<>>, err |-> "nil"]

\* The end of GetPluginPath, match being its value when the loop ended. The
\* loop variable then holds the last element.
ResolveMatch(plugins, match, fail) ==
    IF match # "nil"
    THEN MatchResult(DirPath(Deref(match, plugins, Len(plugins)), fail),
                     FilePath(Deref(match, plugins, Len(plugins)), fail))
    ELSE [dir |-> <<>>, path |-> <<>>, err |-> "nil"]

\* GetPluginPath when nothing on $PATH overrides the cache, plugins being what
\* GetPlugins returned.
ResolveFromCache(plugins, kind, name, version, fail) ==
    IF plugins.err # "nil" THEN [dir |-> <<>>, path |-> <<>>, err |-> "loading plugin list"]
    ELSE ResolveMatch(plugins.plugins,
                      MatchLoop(plugins.plugins, kind, name, version, 1, "nil"), fail)

\* GetPluginPath looking at $PATH only after the scan of the cache succeeded.
GetPluginPath_ScanFirst(f, kind, name, version, onPath, fail) ==
    LET filename == FilePrefix(Descriptor(kind, name, version))
        plugins  == GetPlugins(f, fail)
    IN  IF plugins.err # "nil"
        THEN [dir |-> <<>>, path |-> <<>>, err |-> "loading plugin list"]
        ELSE IF onPath THEN [dir |-> <<>>, path |-> LookPathResult(filename), err |-> "nil"]
        ELSE [dir |-> <<>>, path |-> <<>>, err |-> "nil"]

\* GetPluginPath: [dir, path, err]. onPath says whether exec.LookPath finds
\* the unversioned executable name on $PATH.
GetPluginPath(f, kind, name, version, onPath, fail) ==
    IF onPath
    THEN [dir |-> <<>>, path |-> LookPathResult(FilePrefix(Descriptor(kind, name, version))),
          err |-> "nil"]
    ELSE ResolveFromCache(GetPlugins(f, fail), kind, name, version, fail)

----------------------------------------------------------------------------
(* Install and Delete.                                                     *)

\* A tar header with the entry's bytes: Name is the path as a sequence of
\* components, Typeflag one of "dir", "reg" or another type such as "symlink".
TarEntry(name, typeflag, data) == [Name |-> name, Typeflag |-> typeflag, data |-> data]

\* A tarball: whether the stream starts as gzip, the entries the tar reader
\* yields, and whether it then ends with io.EOF or with a read error.
Tarball(gzipOK, entries, truncated) ==
    [gzipOK |-> gzipOK, entries |-> entries, truncated |-> truncated]

Parent(p) == SubSeq(p, 1, Len(p) - 1)

\* The proper ancestors of p that are paths inside the plugin directory.
Ancestors(p) == {SubSeq(p, 1, n) : n \in 1..(Len(p) - 1)}

\* os.Stat(path) succeeds: the path is there and no ancestor is a regular file.
StatOK(tree, p) == p \in DOMAIN tree

\* os.MkdirAll(path): [err, tree]. Creates the missing directories down to p;
\* fails when p or an ancestor is a regular file.
MkdirAll(tree, p) ==
    LET need == (Ancestors(p) \cup {p})
    IN  IF \E q \in need : q \in DOMAIN tree /\ tree[q].type = "file"
        THEN [err |-> "mkdir", tree |-> tree]
        ELSE [err |-> "nil",
              tree |-> [q \in DOMAIN tree \cup need |->
                            IF q \in DOMAIN tree THEN tree[q] ELSE TreeDir]]

\* io.Copy into a file opened with O_TRUNC: only the new bytes remain.
CopyOver_Truncate(old, data) == data

\* io.Copy into a file opened without O_TRUNC: the bytes are written from
\* offset 0 and what the file held beyond them stays.
CopyOver(old, data) ==
    data \o (IF Len(old) > Len(data) THEN SubSeq(old, Len(data) + 1, Len(old)) ELSE <<>>)

\* os.OpenFile with O_EXCL: opening fails when the path exists already.
WriteFile_Exclusive(tree, p, data) ==
    IF (Len(p) > 1 /\ (Parent(p) \notin DOMAIN tree \/ tree[Parent(p)].type # "dir"))
       \/ p \in DOMAIN tree
    THEN [err |-> "open", tree |-> tree]
    ELSE [err |-> "nil", tree |-> [q \in DOMAIN tree \cup {p} |->
                                      IF q = p THEN TreeFile(data) ELSE tree[q]]]

\* os.OpenFile(path, O_CREATE|O_RDWR, mode) then io.Copy: [err, tree]. Opening
\* fails when the parent directory is missing or the path is a directory.
WriteFile(tree, p, data) ==
    IF (Len(p) > 1 /\ (Parent(p) \notin DOMAIN tree \/ tree[Parent(p)].type # "dir"))
       \/ (p \in DOMAIN tree /\ tree[p].type = "dir")
    THEN [err |-> "open", tree |-> tree]
    ELSE [err |-> "nil",
          tree |-> [q \in DOMAIN tree \cup {p} |->
                        IF q = p
                        THEN TreeFile(CopyOver(IF p \in DOMAIN tree THEN tree[p].data ELSE <<>>,
                                               data))
                        ELSE tree[q]]]

\* errors.Wrapf(err, msg): the step's error under the message of Install.
Wrap(r, msg) == [err |-> IF r.err = "nil" THEN "nil" ELSE msg, tree |-> r.tree]

\* ExtractEntry passing over the entry types it does not handle.
ExtractEntry_SkipOtherTypes(tree, header) ==
    CASE header.Typeflag = "dir" ->
            IF StatOK(tree, header.Name) THEN [err |-> "nil", tree |-> tree]
            ELSE Wrap(MkdirAll(tree, header.Name), "untarring dir")
      [] header.Typeflag = "reg" ->
            Wrap(WriteFile(tree, header.Name, header.data), "opening file for untar")
      [] OTHER -> [err |-> "nil", tree |-> tree]

\* One iteration of the loop of Install on a header: [err, tree].
ExtractEntry(tree, header) ==
    CASE header.Typeflag = "dir" ->
            IF StatOK(tree, header.Name) THEN [err |-> "nil", tree |-> tree]
            ELSE Wrap(MkdirAll(tree, header.Name), "untarring dir")
      [] header.Typeflag = "reg" ->
            Wrap(WriteFile(tree, header.Name, header.data), "opening file for untar")
      [] OTHER -> [err |-> "unexpected plugin file type", tree |-> tree]

RECURSIVE ExtractAll(_, _, _)
RECURSIVE ExtractNext(_, _, _)
\* The loop of Install from entry i on: [err, at, tree], at being the index of
\* the entry the error is about (0 when there is none).
ExtractAll(tree, tarball, i) ==
    IF i > Len(tarball.entries)
    THEN (IF tarball.truncated THEN [err |-> "untarring", at |-> 0, tree |-> tree]
          ELSE [err |-> "nil", at |-> 0, tree |-> tree])
    ELSE ExtractNext(ExtractEntry(tree, tarball.entries[i]), tarball, i)

\* The end of iteration i, r being what the entry's extraction returned.
ExtractNext(r, tarball, i) ==
    IF r.err # "nil" THEN [err |-> r.err, at |-> i, tree |-> r.tree]
    ELSE ExtractAll(r.tree, tarball, i + 1)

\* The tree below the plugin directory d once os.MkdirAll has run.
TreeAt(f, d) == IF d \in DOMAIN f THEN f[d].tree ELSE EmptyTree

\* The cache root with the plugin directory d holding tree.
WithDir(f, d, tree) == [n \in DOMAIN f \cup {d} |-> IF n = d THEN Directory(tree) ELSE f[n]]

\* The return of Install after its loop, r being what the loop returned.
Extracted(f, d, r) ==
    [err |-> r.err, at |-> r.at, closed |-> TRUE, fs |-> WithDir(f, d, r.tree)]

\* Install extracting into a staging directory that is moved to its place
\* only when the whole tarball was extracted.
InstallAt_Staged(f, d, tarball) ==
    IF d \in DOMAIN f /\ ~f[d].IsDir
    THEN [err |-> "creating plugin directory", at |-> 0, closed |-> FALSE, fs |-> f]
    ELSE IF ~tarball.gzipOK
    THEN [err |-> "unzipping", at |-> 0, closed |-> TRUE, fs |-> f]
    ELSE LET r == Extracted(f, d, ExtractAll(TreeAt(f, d), tarball, 1))
         IN  IF r.err = "nil" THEN r ELSE [r EXCEPT !.fs = f]

\* Install from os.MkdirAll on, d being the name of the plugin directory.
InstallAt(f, d, tarball) ==
    IF d \in DOMAIN f /\ ~f[d].IsDir
    THEN [err |-> "creating plugin directory", at |-> 0, closed |-> FALSE, fs |-> f]
    ELSE IF ~tarball.gzipOK
    THEN [err |-> "unzipping", at |-> 0, closed |-> TRUE, fs |-> WithDir(f, d, TreeAt(f, d))]
    ELSE Extracted(f, d, ExtractAll(TreeAt(f, d), tarball, 1))

\* PluginInfo.Install: [err, at, closed, fs]. closed says whether the
\* tarball has been closed when the call returns: the deferred close is
\* registered only after the plugin directory has been created.
Install(f, info, tarball, fail) ==
    IF DirPath(info, fail).err # "nil"
    THEN [err |-> DirPath(info, fail).err, at |-> 0, closed |-> FALSE, fs |-> f]
    ELSE InstallAt(f, Dir(info), tarball)

\* Delete with os.Remove's answer for a path that does not exist.
Delete_FailsWhenMissing(f, info, fail) ==
    LET dir == DirPath(info, fail)
    IN  IF dir.err # "nil" THEN [err |-> dir.err, fs |-> f]
        ELSE IF Dir(info) \notin DOMAIN f THEN [err |-> "no such file or directory", fs |-> f]
        ELSE [err |-> "nil", fs |-> [n \in DOMAIN f \ {Dir(info)} |-> f[n]]]

\* PluginInfo.Delete: [err, fs]. os.RemoveAll removes the path and what is
\* below it, and returns nil when the path does not exist.
Delete(f, info, fail) ==
    LET dir == DirPath(info, fail)
    IN  IF dir.err # "nil" THEN [err |-> dir.err, fs |-> f]
        ELSE [err |-> "nil", fs |-> [n \in DOMAIN f \ {Dir(info)} |-> f[n]]]

----------------------------------------------------------------------------
(* The inputs of the model.                                                *)

\* The most children the cache root holds at a time.
MaxEntries == 2

aws == <<"a", "w", "s">>
k8s == <<"k", "8", "s">>

V1  == MkVersion(1, 0, 0, <<>>, <<>>)
V2  == MkVersion(2, 0, 0, <<>>, <<>>)
V10 == MkVersion(10, 0, 0, <<>>, <<>>)

\* The descriptors callers install, delete and ask for.
Descriptors ==
    {Descriptor(k, n, v) : k \in {LanguagePlugin, ResourcePlugin}, n \in {aws, k8s},
                           v \in {NilVersion, VersionPtr(V2), VersionPtr(V10)}}

\* Children of the cache root that something other than Install puts there:
\* a plain file with the name of a plugin directory, a directory of an unknown
\* kind, a directory whose version text the pattern accepts and semver rejects
\* ("1x0y0"), and one whose version text is short but tolerated ("1.234").
ForeignEntries ==
    { [name |-> Dir(Descriptor(ResourcePlugin, aws, VersionPtr(V2))), node |-> PlainFile],
      [name |-> <<"p", "l", "u", "g", "i", "n">> \o <<"-">> \o aws \o <<"-", "v">>
                \o VersionString(V1),
       node |-> Directory(EmptyTree)],
      [name |-> ResourcePlugin \o <<"-">> \o aws \o <<"-", "v", "1", "x", "0", "y", "0">>,
       node |-> Directory(EmptyTree)],
      [name |-> ResourcePlugin \o <<"-">> \o aws \o <<"-", "v", "1", ".", "2", "3", "4">>,
       node |-> Directory(EmptyTree)] }

\* A tarball of one regular file.
OneFileTarball ==
    Tarball(TRUE, <<TarEntry(<<"bin">>, "reg", <<1>>)>>, FALSE)

----------------------------------------------------------------------------
(* The operations as actions. The package is called synchronously from one *)
(* thread: a caller makes a call when none is pending, the call runs to    *)
(* its end and records what it returned, and Return hands that back.       *)

NoCall == [op |-> "none"]

Init ==
    /\ fs = [n \in {} |-> PlainFile]
    /\ call = NoCall

DoInstall(info, tarball, fail) ==
    /\ call = NoCall
    /\ \E r \in {Install(fs, info, tarball, fail)} :
        /\ Cardinality(DOMAIN r.fs) <= MaxEntries
        /\ fs' = r.fs
        /\ call' = [op |-> "Install", info |-> info, tarball |-> tarball, fail |-> fail,
                    err |-> r.err, at |-> r.at, closed |-> r.closed]

DoDelete(info, fail) ==
    /\ call = NoCall
    /\ \E r \in {Delete(fs, info, fail)} :
        /\ fs' = r.fs
        /\ call' = [op |-> "Delete", info |-> info, fail |-> fail,
                    existed |-> Dir(info) \in DOMAIN fs, err |-> r.err]

\* Something outside the package creates a child of the cache root.
CreateForeign(e) ==
    /\ call = NoCall
    /\ e.name \notin DOMAIN fs
    /\ Cardinality(DOMAIN fs) < MaxEntries
    /\ fs' = [n \in DOMAIN fs \cup {e.name} |-> IF n = e.name THEN e.node ELSE fs[n]]
    /\ call' = NoCall

DoHasPlugin(plug, fail) ==
    /\ call = NoCall
    /\ call' = [op |-> "HasPlugin", plug |-> plug, fail |-> fail,
                ok |-> HasPlugin(fs, plug, fail)]
    /\ UNCHANGED fs

DoHasPluginGTE(plug, fail) ==
    /\ call = NoCall
    /\ \E r \in {HasPluginGTE(fs, plug, fail)} :
        /\ call' = [op |-> "HasPluginGTE", plug |-> plug, fail |-> fail,
                    ok |-> r.ok, err |-> r.err]
        /\ UNCHANGED fs

DoGetPlugins(fail) ==
    /\ call = NoCall
    /\ \E r \in {GetPlugins(fs, fail)} :
        /\ call' = [op |-> "GetPlugins", fail |-> fail, plugins |-> r.plugins, err |-> r.err]
        /\ UNCHANGED fs

DoGetPluginPath(kind, name, version, onPath, fail) ==
    /\ call = NoCall
    /\ \E r \in {GetPluginPath(fs, kind, name, version, onPath, fail)} :
        /\ call' = [op |-> "GetPluginPath", kind |-> kind, name |-> name,
                    version |-> version, onPath |-> onPath, fail |-> fail,
                    dir |-> r.dir, path |-> r.path, err |-> r.err]
        /\ UNCHANGED fs

\* The caller takes the result of the call.
Return ==
    /\ call # NoCall
    /\ call' = NoCall
    /\ UNCHANGED fs

Failures == {NoFailure, UserFailure, ReadDirFailure}

\* What a scan of the cache root can meet: the root can be missing only while
\* it has no children.
ScanFailures == Failures \cup (IF DOMAIN fs = {} THEN {RootMissing} ELSE {})

Next ==
    \/ \E d \in Descriptors, fail \in {NoFailure, UserFailure} :
            DoInstall(d, OneFileTarball, fail)
    \/ \E d \in Descriptors, fail \in {NoFailure, UserFailure} : DoDelete(d, fail)
    \/ \E e \in ForeignEntries : CreateForeign(e)
    \/ \E d \in Descriptors, fail \in {NoFailure, UserFailure} : DoHasPlugin(d, fail)
    \/ \E d \in Descriptors, fail \in ScanFailures : DoHasPluginGTE(d, fail)
    \/ \E fail \in ScanFailures : DoGetPlugins(fail)
    \/ \E d \in Descriptors, onPath \in BOOLEAN, fail \in ScanFailures :
            DoGetPluginPath(d.Kind, d.Name, d.Version, onPath, fail)
    \/ Return

Spec == Init /\ [][Next]_vars

----------------------------------------------------------------------------
(* Naming and parsing on their own: a descriptor is drawn, PluginInfo.Dir  *)
(* names its directory, and tryPlugin reads a cache entry of that name.    *)

TestNames ==
    { aws, k8s, <<"v", "1">>, <<"A", "z", "-", "0">>,
      <<"a", "-", "v", "1", "-", "2", "-", "3">> }

TestPrereleases ==
    { <<>>, <<PRStr(<<"r", "c">>), PRNum(1)>>, <<PRStr(<<"x", "-", "v", "2">>)>>, <<PRNum(0)>> }

TestVersions ==
    { MkVersion(major, minor, patch, pre, build) :
        major \in {0, 1, 10}, minor \in {0, 16}, patch \in {0, 5},
        pre \in TestPrereleases, build \in {<<>>, << <<"b", "1">> >>} }

TestDescriptors ==
    {Descriptor(k, n, VersionPtr(v)) : k \in PluginKinds, n \in TestNames, v \in TestVersions}

InitParse ==
    /\ fs = [n \in {} |-> PlainFile]
    /\ call \in {[op |-> "descriptor", info |-> d] : d \in TestDescriptors}

ParseDir(isDir) ==
    /\ call.op = "descriptor"
    /\ call' = [op |-> "tryPlugin", info |-> call.info, isDir |-> isDir,
                out |-> tryPlugin(FileInfo(Dir(call.info), isDir))]
    /\ UNCHANGED fs

NextParse == \E isDir \in BOOLEAN : ParseDir(isDir)

SpecParse == InitParse /\ [][NextParse]_vars

\* A name of alphanumerics and hyphens, not empty, no hyphen first or last.
ValidName(n) ==
    /\ Len(n) > 0
    /\ \A i \in 1..Len(n) : IsAlnum(n[i]) \/ n[i] = "-"
    /\ n[1] # "-"
    /\ n[Len(n)] # "-"

\* A descriptor as the data model defines it, with its version set: a kind of
\* the enumeration, a valid name, and a version MAJOR.MINOR.PATCH with an
\* optional prerelease suffix.
ValidDescriptor(d) ==
    /\ d.Kind \in PluginKinds
    /\ ValidName(d.Name)
    /\ d.Version # NilVersion
    /\ d.Version[1].Build = <<>>

\* C1: for every valid descriptor d with its version set, tryPlugin on a
\* directory named Dir(d) succeeds and returns exactly d's kind, name and
\* version.
C1_ParseInvertsDir ==
    (call.op = "tryPlugin" /\ call.isDir /\ ValidDescriptor(call.info)) =>
        /\ call.out.ok
        /\ call.out.Kind = call.info.Kind
        /\ call.out.Name = call.info.Name
        /\ call.out.Version = call.info.Version[1]

\* A name that holds "-v" and a version with a prerelease of two identifiers
\* went through Dir and tryPlugin.
C1_Witness ==
    /\ call.op = "tryPlugin"
    /\ call.isDir
    /\ call.out.ok
    /\ call.info.Name = <<"a", "-", "v", "1", "-", "2", "-", "3">>
    /\ call.info.Version[1] = MkVersion(10, 16, 5, <<PRStr(<<"r", "c">>), PRNum(1)>>, <<>>)

----------------------------------------------------------------------------
(* Resolution and presence.                                                *)

\* The records a scan of the current cache returns when nothing fails.
Scanned == Range(GetPlugins(fs, NoFailure).plugins)

\* The scanned records of a kind and name.
ScannedOf(kind, name) == {p \in Scanned : p.Kind = kind /\ p.Name = name}

\* The records of S no record of S is newer than.
Latest(S) == {p \in S : \A o \in S : VersionGTE(p.Version[1], o.Version[1])}

\* The call returned the directory and the executable path of record p.
ReturnedPlugin(p) ==
    /\ call.err = "nil"
    /\ call.dir = PluginDirRoot \o <<"/">> \o Dir(p)
    /\ call.path = call.dir \o <<"/">> \o File(p)

ReturnedNotFound == call.dir = <<>> /\ call.path = <<>> /\ call.err = "nil"

\* A call of GetPluginPath that went to the cache and met no failure.
ResolvedFromCache ==
    call.op = "GetPluginPath" /\ ~call.onPath /\ call.fail = NoFailure

\* C2: with a minimum version and no override, GetPluginPath returns the
\* latest cached plugin of the kind and name among those at or above the
\* minimum.
C2_LatestAtLeastMinimum ==
    (ResolvedFromCache /\ call.version # NilVersion) =>
        LET q == {p \in ScannedOf(call.kind, call.name) :
                    VersionGTE(p.Version[1], call.version[1])}
        IN  q # {} => \E p \in Latest(q) : ReturnedPlugin(p)

\* C3: with a minimum version and no override, GetPluginPath returns a cached
\* plugin of the kind and name at or above the minimum when there is one, and
\* "not found" without an error when there is none.
C3_NeverBelowMinimum ==
    (ResolvedFromCache /\ call.version # NilVersion) =>
        LET q == {p \in ScannedOf(call.kind, call.name) :
                    VersionGTE(p.Version[1], call.version[1])}
        IN  IF q # {} THEN \E p \in q : ReturnedPlugin(p) ELSE ReturnedNotFound

\* C4: with no minimum version and no override, GetPluginPath returns the
\* latest cached plugin of the kind and name, whatever else is in the cache.
C4_LatestWithoutMinimum ==
    (ResolvedFromCache /\ call.version = NilVersion) =>
        LET m == ScannedOf(call.kind, call.name)
        IN  IF m # {} THEN \E p \in Latest(m) : ReturnedPlugin(p) ELSE ReturnedNotFound

\* C5: when the unversioned executable is on $PATH, GetPluginPath returns
\* that path with an empty directory and no error, whatever the cache holds
\* and whether or not scanning it would fail.
C5_OverrideWins ==
    (call.op = "GetPluginPath" /\ call.onPath) =>
        /\ call.dir = <<>>
        /\ call.path = <<"<$PATH>", "/", "p", "u", "l", "u", "m", "i", "-">>
                       \o call.kind \o <<"-">> \o call.name
        /\ call.err = "nil"

\* The override was taken for a request whose minimum the cache cannot meet,
\* with a plugin of that kind and name cached and the cache root unreadable.
C5_Witness ==
    /\ call.op = "GetPluginPath"
    /\ call.onPath
    /\ call.fail = ReadDirFailure
    /\ call.version = VersionPtr(V10)
    /\ call.path # <<>>
    /\ Dir(Descriptor(call.kind, call.name, VersionPtr(V2))) \in DOMAIN fs

\* C6: HasPlugin is true exactly when an entry named Dir(d) exists as a
\* directory under the cache root.
C6_ExistsIffDirectory ==
    (call.op = "HasPlugin" /\ call.fail = NoFailure) =>
        (call.ok <=> (Dir(call.plug) \in DOMAIN fs /\ fs[Dir(call.plug)].IsDir))

HasPluginForm(n, r) ==
    \E i \in 1..Len(n), j \in 1..(Len(n) - 1) :
        /\ i < j
        /\ n[i] = "-"
        /\ n[j] = "-"
        /\ n[j + 1] = "v"
        /\ SubSeq(n, 1, i - 1) \in PluginKinds
        /\ SubSeq(n, i + 1, j - 1) # <<>>
        /\ ParseTolerant(Drop(n, j + 1)).ok
        /\ r.Kind = SubSeq(n, 1, i - 1)
        /\ r.Name = SubSeq(n, i + 1, j - 1)
        /\ r.Version = VersionPtr(ParseTolerant(Drop(n, j + 1)).v)

\* The entry n is a directory named as a plugin.
PluginEntry(n) ==
    /\ fs[n].IsDir
    /\ \E k \in PluginKinds, i \in 1..Len(n), j \in 1..(Len(n) - 1) :
            HasPluginForm(n, [Kind |-> k, Name |-> SubSeq(n, i + 1, j - 1),
                              Version |-> VersionPtr(ParseTolerant(Drop(n, j + 1)).v)])

C9_DeleteIdempotent ==
    [][ (call.op = "none" /\ call'.op = "Delete" /\ call'.fail = NoFailure) =>
            /\ call'.err = "nil"
            /\ Dir(call'.info) \notin DOMAIN fs'
            /\ (Dir(call'.info) \notin DOMAIN fs => fs' = fs)
            /\ Delete(fs', call'.info, NoFailure) = [err |-> "nil", fs |-> fs']
      ]_vars

\* Delete returned no error for a descriptor that had no directory, in a
\* cache that holds other entries.
C9_Witness ==
    /\ call.op = "Delete"
    /\ call.fail = NoFailure
    /\ ~call.existed
    /\ call.err = "nil"
    /\ DOMAIN fs # {}

----------------------------------------------------------------------------
(* Installation: one descriptor, tarballs of every shape.                  *)

\* The most entries a tarball holds.
MaxTarEntries == 3

\* The entries tarballs are made of: a directory, a file in it, a file at the
\* top, a shorter file of the same path, and a symbolic link.
EntryPool ==
    { TarEntry(<<"lib">>, "dir", <<>>),
      TarEntry(<<"lib", "so">>, "reg", <<2>>),
      TarEntry(<<"bin">>, "reg", <<1, 1>>),
      TarEntry(<<"bin">>, "reg", <<3>>),
      TarEntry(<<"ln">>, "symlink", <<>>) }

\* The sequences of at most n different elements of S.
SeqsUpTo(S, n) ==
    UNION { {q \in [1..m -> S] : \A i, j \in 1..m : i # j => q[i] # q[j]} : m \in 0..n }

\* Well-formed tarballs, tarballs whose tar stream breaks off after their
\* entries, and a stream that is not gzip.
Tarballs ==
    {Tarball(TRUE, q, trunc) : q \in SeqsUpTo(EntryPool, MaxTarEntries), trunc \in BOOLEAN}
    \cup {Tarball(FALSE, <<>>, FALSE)}

InstallDescriptor == Descriptor(ResourcePlugin, aws, VersionPtr(V2))

NextInstall ==
    \/ \E t \in Tarballs, fail \in {NoFailure, UserFailure} :
            DoInstall(InstallDescriptor, t, fail)
    \/ DoDelete(InstallDescriptor, NoFailure)
    \/ CreateForeign([name |-> Dir(InstallDescriptor), node |-> PlainFile])
    \/ \E fail \in ScanFailures : DoGetPlugins(fail)
    \/ Return

SpecInstall == Init /\ [][NextInstall]_vars

\* The index of the first entry of a tarball that is neither a directory nor a
\* regular file, 0 when there is none.
FirstUnsupported(t) ==
    IF \E i \in 1..Len(t.entries) : t.entries[i].Typeflag \notin {"dir", "reg"}
    THEN CHOOSE i \in 1..Len(t.entries) :
            /\ t.entries[i].Typeflag \notin {"dir", "reg"}
            /\ \A j \in 1..(i - 1) : t.entries[j].Typeflag \in {"dir", "reg"}
    ELSE 0

\* The tree of the plugin directory of d in cache f, empty when it is absent.
TreeOf(f, d) == IF Dir(d) \in DOMAIN f /\ f[Dir(d)].IsDir THEN f[Dir(d)].tree ELSE EmptyTree

\* C10: Install of a tarball that holds an entry of another type than
\* directory and regular file returns an error, never success. Unless the call
\* failed before that entry (no cache root, no plugin directory, no gzip
\* stream, an earlier entry), the error is the one of that entry, nothing after
\* the entry has been extracted, and what the entries before it wrote is on
\* disk, exactly as after installing those entries alone.
C10_UnsupportedEntryAborts ==
    [][ (call.op = "none" /\ call'.op = "Install"
         /\ FirstUnsupported(call'.tarball) # 0) =>
            LET t    == call'.tarball
                k    == FirstUnsupported(t)
                d    == call'.info
                head == Tarball(TRUE, SubSeq(t.entries, 1, k - 1), FALSE)
            IN  /\ call'.err # "nil"
                /\ call'.at <= k
                /\ (call'.fail = NoFailure /\ t.gzipOK /\ call'.at \notin 1..(k - 1)
                    /\ ~(Dir(d) \in DOMAIN fs /\ ~fs[Dir(d)].IsDir)) =>
                        /\ call'.err = "unexpected plugin file type"
                        /\ call'.at = k
                        /\ Dir(d) \in DOMAIN fs'
                        /\ \A i \in 1..(k - 1) : t.entries[i].Name \in DOMAIN TreeOf(fs', d)
                        /\ \A i \in (k + 1)..Len(t.entries) :
                              t.entries[i].Name \in DOMAIN TreeOf(fs', d) =>
                                  \/ t.entries[i].Name \in DOMAIN TreeOf(fs, d)
                                  \/ \E j \in 1..(k - 1) :
                                        t.entries[j].Name = t.entries[i].Name
                        /\ fs' = Install(fs, d, head, NoFailure).fs
      ]_vars

\* Install stopped at a symbolic link that is the second entry of three,
\* having written the first entry and not the third.
C10_Witness ==
    /\ call.op = "Install"
    /\ call.err = "unexpected plugin file type"
    /\ call.at = 2
    /\ Len(call.tarball.entries) = 3
    /\ call.tarball.entries[1].Name \in DOMAIN TreeOf(fs, call.info)
    /\ call.tarball.entries[3].Name \notin DOMAIN TreeOf(fs, call.info)

----------------------------------------------------------------------------
(* The tarball stream.                                                     *)

\* C11: when Install returns, the caller's tarball has been closed, on every
\* exit path: the cache root cannot be named, the plugin directory cannot be
\* created, the stream is not gzip, an entry is rejected, or success.
C11_StreamClosedOnReturn ==
    call.op = "Install" => call.closed

----------------------------------------------------------------------------
(* The size a scan computes after an installation.                         *)

RECURSIVE RegularBytes(_, _)
\* The byte lengths of the regular-file entries from index i on, added up.
RegularBytes(entries, i) ==
    IF i > Len(entries) THEN 0
    ELSE (IF entries[i].Typeflag = "reg" THEN Len(entries[i].data) ELSE 0)
         + RegularBytes(entries, i + 1)

\* No two regular-file entries of the tarball have the same path.
DistinctFilePaths(t) ==
    \A i, j \in 1..Len(t.entries) :
        (i # j /\ t.entries[i].Typeflag = "reg" /\ t.entries[j].Typeflag = "reg")
            => t.entries[i].Name # t.entries[j].Name

\* The sizes a scan of cache f reports for the records of d's kind, name and
\* version.
ScannedSizes(f, d) ==
    {p.Size : p \in {q \in Range(GetPlugins(f, NoFailure).plugins) :
                        q.Kind = d.Kind /\ q.Name = d.Name /\ q.Version = d.Version}}

\* This step is an Install that succeeded for a descriptor that had no entry
\* in the cache root.
FreshInstallStep ==
    /\ call.op = "none"
    /\ call'.op = "Install"
    /\ call'.err = "nil"
    /\ Dir(call'.info) \notin DOMAIN fs

\* C12 as stated: after a successful Install into a directory that did not
\* exist, the size the scan computes is the sum of the byte lengths of the
\* tarball's regular-file entries.
C12_SizeIsSumOfEntries ==
    [][ FreshInstallStep =>
            ScannedSizes(fs', call'.info) = {RegularBytes(call'.tarball.entries, 1)}
      ]_vars

\* C12, amended: the same when no two regular-file entries of the tarball have
\* the same path. Directory entries add nothing.
C12_SizeIsSumOfDistinctFiles ==
    [][ (FreshInstallStep /\ DistinctFilePaths(call'.tarball)) =>
            ScannedSizes(fs', call'.info) = {RegularBytes(call'.tarball.entries, 1)}
      ]_vars

\* An Install of a directory entry, a file below it and a file at the top
\* succeeded, and the scan reports the 3 bytes of the two files.
C12_Witness ==
    /\ call.op = "Install"
    /\ call.err = "nil"
    /\ Len(call.tarball.entries) = 3
    /\ \E i \in 1..3 : call.tarball.entries[i].Typeflag = "dir"
    /\ DistinctFilePaths(call.tarball)
    /\ RegularBytes(call.tarball.entries, 1) = 3
    /\ ScannedSizes(fs, call.info) = {3}

----------------------------------------------------------------------------
(* Errors of reading the cache root.                                       *)

\* C13: GetPlugins on a cache root that does not exist returns no plugins and
\* no error. Any other error of reading the root is returned by GetPlugins; a
\* GetPluginPath that goes to the cache and a HasPluginGTE that finds no
\* directory of the exact name then fail with it, and report neither "not
\* found" nor false without an error.
C13_ReadErrorsPropagate ==
    /\ (call.op = "GetPlugins" /\ call.fail = RootMissing) =>
            call.err = "nil" /\ call.plugins = <<>>
    /\ (call.op = "GetPlugins" /\ call.fail = ReadDirFailure) => call.err = "io"
    /\ (call.op = "GetPluginPath" /\ call.fail = ReadDirFailure /\ ~call.onPath) =>
            call.err = "loading plugin list" /\ call.dir = <<>> /\ call.path = <<>>
    /\ (call.op = "HasPluginGTE" /\ call.fail = ReadDirFailure
        /\ Dir(call.plug) \notin DOMAIN fs) =>
            call.err = "io" /\ ~call.ok

\* HasPluginGTE failed with the read error in a cache that holds a newer
\* plugin of the kind and name asked for.
C13_Witness ==
    /\ call.op = "HasPluginGTE"
    /\ call.fail = ReadDirFailure
    /\ call.err = "io"
    /\ call.plug.Version = VersionPtr(V2)
    /\ Dir(Descriptor(call.plug.Kind, call.plug.Name, VersionPtr(V10))) \in DOMAIN fs

----------------------------------------------------------------------------
(* The lifecycle of a record: installed, listed, deleted.                  *)

\* A version whose short form "1.234" the pattern of plugin directories
\* accepts too.
V1_234 == MkVersion(1, 234, 0, <<>>, <<>>)

LifecycleDescriptors ==
    {InstallDescriptor, Descriptor(ResourcePlugin, aws, VersionPtr(V1_234))}

\* Tarballs of at most one entry.
SmallTarballs == {t \in Tarballs : Len(t.entries) <= 1}

NextLifecycle ==
    \/ \E d \in LifecycleDescriptors, t \in SmallTarballs : DoInstall(d, t, NoFailure)
    \/ \E d \in LifecycleDescriptors : DoDelete(d, NoFailure)
    \/ \E e \in ForeignEntries : CreateForeign(e)
    \/ \E d \in LifecycleDescriptors : DoHasPlugin(d, NoFailure)
    \/ DoGetPlugins(NoFailure)
    \/ Return

SpecLifecycle == Init /\ [][NextLifecycle]_vars

\* A scan of cache f returns a record of d's kind, name and version.
Listed(f, d) == ScannedSizes(f, d) # {}

\* C14: after a successful Install of a descriptor d with a version,
\* HasPlugin(d) is true and GetPlugins returns a record of d's kind, name and
\* version; after a successful Delete of d, HasPlugin(d) is false and
\* GetPlugins returns no such record; and no call other than Install makes
\* such a record appear.
C14_Lifecycle ==
    [][ /\ (call.op = "none" /\ call'.op = "Install" /\ call'.err = "nil"
            /\ call'.info.Version # NilVersion) =>
                /\ HasPlugin(fs', call'.info, NoFailure)
                /\ Listed(fs', call'.info)
        /\ (call.op = "none" /\ call'.op = "Delete" /\ call'.err = "nil"
            /\ call'.info.Version # NilVersion) =>
                /\ ~HasPlugin(fs', call'.info, NoFailure)
                /\ ~Listed(fs', call'.info)
        /\ (call.op = "none" /\ call'.op \notin {"none", "Install"}) =>
                \A d \in LifecycleDescriptors : Listed(fs', d) => Listed(fs, d)
      ]_vars

----------------------------------------------------------------------------
(* The record GetPluginPath returns.                                       *)

RECURSIVE LastAdopted(_, _, _, _, _, _)
\* The selection rules applied to the scanned records in scan order, the
\* selection being a record of its own: the index of the record adopted last,
\* 0 when none was adopted.
LastAdopted(plugins, kind, name, version, i, sel) ==
    IF i > Len(plugins) THEN sel
    ELSE LET m == Candidate(plugins[i], IF sel = 0 THEN "nil" ELSE "&plugin",
                            plugins[IF sel = 0 THEN i ELSE sel], kind, name, version)
         IN  LastAdopted(plugins, kind, name, version, i + 1, IF m # "nil" THEN i ELSE sel)

\* C15: a GetPluginPath that goes to the cache returns the directory and the
\* file path of the scanned record the selection rules adopted last, a record
\* of the requested kind and name, and "not found" when none was adopted,
\* whatever else the cache holds and wherever it comes in scan order.
C15_ReturnsLastAdopted ==
    ResolvedFromCache =>
        LET plugins == GetPlugins(fs, NoFailure).plugins
            s       == LastAdopted(plugins, call.kind, call.name, call.version, 1, 0)
        IN  IF s = 0 THEN ReturnedNotFound
            ELSE /\ plugins[s].Kind = call.kind
                 /\ plugins[s].Name = call.name
                 /\ ReturnedPlugin(plugins[s])

----------------------------------------------------------------------------
(* A scan that runs while another process deletes plugins. GetPlugins is   *)
(* taken step by step: ioutil.ReadDir of the root, then for each entry     *)
(* os.Stat and getPluginSize of SetFileMetadata; a Delete of another       *)
(* process can run between any two of these steps.                         *)

RaceDescriptors ==
    {Descriptor(ResourcePlugin, aws, VersionPtr(v)) : v \in {V1, V2, V10}}

RaceTarballs ==
    {OneFileTarball, Tarball(TRUE, <<TarEntry(<<"bin">>, "reg", <<1, 1>>)>>, FALSE)}

\* What GetPlugins returns, with the entries it enumerated.
ScanReturn(c, plugins, err) ==
    [op |-> "GetPlugins", fail |-> NoFailure, files |-> c.files, plugins |-> plugins,
     err |-> err]

\* ioutil.ReadDir of the cache root: the scan holds the entries it enumerated.
ScanBegin ==
    /\ call = NoCall
    /\ call' = [op |-> "scanning", files |-> ReadDir(fs, NoFailure).files, i |-> 1,
                pc |-> "stat", plugins |-> <<>>]
    /\ UNCHANGED fs

\* The scan c at an entry p, the result of tryPlugin on it: an entry that is
\* no plugin is passed over; os.Stat of a plugin's path fails when the path is
\* not there, and GetPlugins returns that error.
StatEntry(c, p, f) ==
    IF ~p.ok THEN [c EXCEPT !.i = c.i + 1]
    ELSE IF c.files[c.i].Name \notin DOMAIN f THEN ScanReturn(c, <<>>, "stat")
    ELSE [c EXCEPT !.pc = "size"]

ScanStat ==
    /\ call.op = "scanning"
    /\ call.pc = "stat"
    /\ call.i <= Len(call.files)
    /\ call' = StatEntry(call, tryPlugin(call.files[call.i]), fs)
    /\ UNCHANGED fs

\* getPluginSize of the path after os.Stat succeeded: a path that is no longer
\* there gives size 0, a path that is not a directory an error.
SizeEntry(c, p, name, f) ==
    IF name \in DOMAIN f /\ ~f[name].IsDir THEN ScanReturn(c, <<>>, "getting plugin dir size")
    ELSE [c EXCEPT !.i = c.i + 1, !.pc = "stat",
                   !.plugins = @ \o <<[Name |-> p.Name, Kind |-> p.Kind,
                                       Version |-> VersionPtr(p.Version),
                                       Size |-> IF name \in DOMAIN f
                                                THEN getPluginSize(f[name].tree) ELSE 0]>>]

ScanSize ==
    /\ call.op = "scanning"
    /\ call.pc = "size"
    /\ call' = SizeEntry(call, tryPlugin(call.files[call.i]), call.files[call.i].Name, fs)
    /\ UNCHANGED fs

\* The loop is over: GetPlugins returns the plugins.
ScanEnd ==
    /\ call.op = "scanning"
    /\ call.pc = "stat"
    /\ call.i > Len(call.files)
    /\ call' = ScanReturn(call, call.plugins, "nil")
    /\ UNCHANGED fs

\* Delete of a cached plugin by another process while the scan runs.
ConcurrentDelete(d) ==
    /\ call.op = "scanning"
    /\ Dir(d) \in DOMAIN fs
    /\ fs' = Delete(fs, d, NoFailure).fs
    /\ UNCHANGED call

NextScanRace ==
    \/ \E d \in RaceDescriptors, t \in RaceTarballs : DoInstall(d, t, NoFailure)
    \/ ScanBegin
    \/ ScanStat
    \/ ScanSize
    \/ ScanEnd
    \/ \E d \in RaceDescriptors : ConcurrentDelete(d)
    \/ Return

SpecScanRace == Init /\ [][NextScanRace]_vars

\* C16: GetPlugins completes without an error and returns a record for every
\* plugin directory it enumerated, also when a concurrent Delete removed a
\* directory after the enumeration and before its metadata was probed.
C16_ScanSurvivesDelete ==
    (call.op = "GetPlugins" /\ "files" \in DOMAIN call) =>
        /\ call.err = "nil"
        /\ Len(call.plugins) = Len(call.files)

----------------------------------------------------------------------------
(* Installing over an earlier installation.                                *)

\* Entry i of tarball t is a regular file, the only entry of its path, and
\* shorter than the file the tree old holds at that path.
ShorterOverwrite(t, i, old) ==
    /\ t.entries[i].Typeflag = "reg"
    /\ t.entries[i].Name \in DOMAIN old
    /\ old[t.entries[i].Name].type = "file"
    /\ Len(t.entries[i].data) < Len(old[t.entries[i].Name].data)
    /\ \A j \in 1..Len(t.entries) : j # i => t.entries[j].Name # t.entries[i].Name

\* C17: an Install over an earlier one does not truncate. A well-formed tarball
\* of one regular file that is shorter than the file on disk installs with
\* success; and after every successful Install, a file so overwritten keeps its
\* old length, starts with the entry's bytes and ends with the bytes the
\* earlier install left beyond them.
C17_OverwriteKeepsStaleBytes ==
    [][ (call.op = "none" /\ call'.op = "Install" /\ call'.fail = NoFailure) =>
            LET t   == call'.tarball
                old == TreeOf(fs, call'.info)
                new == TreeOf(fs', call'.info)
            IN  /\ (t.gzipOK /\ ~t.truncated /\ Len(t.entries) = 1
                    /\ ShorterOverwrite(t, 1, old)) => call'.err = "nil"
                /\ call'.err = "nil" =>
                      \A i \in 1..Len(t.entries) :
                          ShorterOverwrite(t, i, old) =>
                              LET e == t.entries[i]
                                  was == old[e.Name].data
                              IN  /\ new[e.Name].type = "file"
                                  /\ Len(new[e.Name].data) = Len(was)
                                  /\ SubSeq(new[e.Name].data, 1, Len(e.data)) = e.data
                                  /\ SubSeq(new[e.Name].data, Len(e.data) + 1, Len(was))
                                        = SubSeq(was, Len(e.data) + 1, Len(was))
      ]_vars

\* A successful Install of the one-byte file over the two-byte file of an
\* earlier install: the file holds the new byte and then the old second byte.
C17_Witness ==
    /\ call.op = "Install"
    /\ call.err = "nil"
    /\ call.tarball.entries = <<TarEntry(<<"bin">>, "reg", <<3>>)>>
    /\ TreeOf(fs, call.info) = (<<"bin">> :> TreeFile(<<3, 1>>))

----------------------------------------------------------------------------
(* What a failed Install leaves in the cache.                              *)

\* The call that returned is an Install that failed after os.MkdirAll had
\* created the plugin directory.
FailedAfterMkdir ==
    /\ call.op = "Install"
    /\ call.fail = NoFailure
    /\ call.err \notin {"nil", "creating plugin directory"}

\* C18: there is no staging: when Install fails after the plugin directory was
\* created (stream that is not gzip, tar stream that breaks off, entry that
\* cannot be extracted or is of an unsupported type), the directory is in the
\* cache root, HasPlugin is true for the descriptor, GetPlugins returns a
\* record of it, and GetPluginPath returns its directory and file path.
C18_FailedInstallStaysDiscoverable ==
    FailedAfterMkdir =>
        /\ Dir(call.info) \in DOMAIN fs
        /\ fs[Dir(call.info)].IsDir
        /\ HasPlugin(fs, call.info, NoFailure)
        /\ Listed(fs, call.info)
        /\ GetPluginPath(fs, call.info.Kind, call.info.Name, call.info.Version,
                         FALSE, NoFailure)
              = [dir |-> DirPath(call.info, NoFailure).path,
                 path |-> FilePath(call.info, NoFailure).path,
                 err |-> "nil"]

\* An Install that stopped at a symbolic link after it had written a file:
\* the directory holds that file and no plugin executable.
C18_Witness ==
    /\ FailedAfterMkdir
    /\ call.err = "unexpected plugin file type"
    /\ call.at = 2
    /\ TreeOf(fs, call.info) = (<<"bin">> :> TreeFile(<<3>>))

----------------------------------------------------------------------------
(* Two Installs of one descriptor at the same time. Install holds no lock: *)
(* each os.MkdirAll and each extraction of an entry is a step of its own   *)
(* on the shared directory, and the steps of the two calls interleave.     *)

\* The entries of the racing tarballs: two files, each with two contents, and
\* a symbolic link.
RaceEntryPool ==
    { TarEntry(<<"a">>, "reg", <<1>>),
      TarEntry(<<"a">>, "reg", <<2>>),
      TarEntry(<<"b">>, "reg", <<1>>),
      TarEntry(<<"b">>, "reg", <<2>>),
      TarEntry(<<"ln">>, "symlink", <<>>) }

MaxRaceEntries == 2

InstallRaceTarballs ==
    {Tarball(TRUE, q, FALSE) : q \in SeqsUpTo(RaceEntryPool, MaxRaceEntries)}

\* A call of Install that has not started: next is the entry its loop reads
\* next (0 before os.MkdirAll), err its return ("running" until it returns).
RaceProc(t) == [tarball |-> t, next |-> 0, err |-> "running"]

\* The record of call with process i at entry next and return err.
ProcAt(c, i, next, err) ==
    [c EXCEPT !.procs[i].next = next, !.procs[i].err = err]

Running(i) ==
    /\ call.op = "InstallRace"
    /\ call.procs[i].err = "running"

\* Two processes call Install for the same descriptor.
InstallBegin(t1, t2) ==
    /\ call = NoCall
    /\ call' = [op |-> "InstallRace", info |-> InstallDescriptor, start |-> fs,
                procs |-> <<RaceProc(t1), RaceProc(t2)>>]
    /\ UNCHANGED fs

\* Process i: DirPath, os.MkdirAll and gzip.NewReader.
InstallMkdir(i) ==
    /\ Running(i)
    /\ call.procs[i].next = 0
    /\ \E r \in {InstallAt(fs, Dir(call.info), Tarball(call.procs[i].tarball.gzipOK, <<>>, FALSE))} :
        /\ fs' = r.fs
        /\ call' = ProcAt(call, i, IF r.err = "nil" THEN 1 ELSE 0,
                          IF r.err = "nil" THEN "running" ELSE r.err)

\* Process i: one iteration of the loop on the next header.
InstallStep(i) ==
    /\ Running(i)
    /\ call.procs[i].next \in 1..Len(call.procs[i].tarball.entries)
    /\ \E r \in {ExtractEntry(TreeAt(fs, Dir(call.info)),
                              call.procs[i].tarball.entries[call.procs[i].next])} :
        /\ fs' = WithDir(fs, Dir(call.info), r.tree)
        /\ call' = ProcAt(call, i, call.procs[i].next + 1,
                          IF r.err = "nil" THEN "running" ELSE r.err)

\* Process i: the tar reader has no further header, Install returns.
InstallEnd(i) ==
    /\ Running(i)
    /\ call.procs[i].next = Len(call.procs[i].tarball.entries) + 1
    /\ call' = ProcAt(call, i, call.procs[i].next,
                      IF call.procs[i].tarball.truncated THEN "untarring" ELSE "nil")
    /\ UNCHANGED fs

\* Both processes have returned.
BothReturned ==
    /\ call.op = "InstallRace"
    /\ \A i \in {1, 2} : call.procs[i].err # "running"

RaceReturn ==
    /\ call.op = "InstallRace" => BothReturned
    /\ Return

NextInstallRace ==
    \/ \E t1, t2 \in InstallRaceTarballs : InstallBegin(t1, t2)
    \/ \E i \in {1, 2} : InstallMkdir(i)
    \/ \E i \in {1, 2} : InstallStep(i)
    \/ \E i \in {1, 2} : InstallEnd(i)
    \/ DoDelete(InstallDescriptor, NoFailure)
    \/ RaceReturn

SpecInstallRace == Init /\ [][NextInstallRace]_vars

\* The tree after Install of t1 and then of t2, one call after the other,
\* into a directory that held tree.
InOrder(tree, t1, t2) == ExtractAll(ExtractAll(tree, t1, 1).tree, t2, 1).tree

\* The trees that the two calls leave when one runs alone or when one runs
\* after the other has returned.
SerialTrees(tree, t1, t2) ==
    { ExtractAll(tree, t1, 1).tree, ExtractAll(tree, t2, 1).tree,
      InOrder(tree, t1, t2), InOrder(tree, t2, t1) }

\* C19: two Installs of one descriptor run without a lock and both report
\* success: when each of the two tarballs extracts without an error into an
\* empty directory, both calls return nil however their steps interleave,
\* neither failing for what the other one wrote.
C19_BothInstallsSucceed ==
    (/\ BothReturned
     /\ \A i \in {1, 2} : ExtractAll(EmptyTree, call.procs[i].tarball, 1).err = "nil")
        => \A i \in {1, 2} : call.procs[i].err = "nil"

\* Both calls returned nil and the plugin directory holds what neither tarball
\* alone nor the two in either order would have left: files of both.
C19_Witness ==
    /\ BothReturned
    /\ \A i \in {1, 2} : call.procs[i].err = "nil"
    /\ call.procs[1].tarball # call.procs[2].tarball
    /\ TreeOf(fs, call.info) \notin
          SerialTrees(TreeOf(call.start, call.info),
                      call.procs[1].tarball, call.procs[2].tarball)

----------------------------------------------------------------------------
(* The resolution on its own: the plugins of one kind and name that a scan *)
(* returned are drawn in two orders, and the loop and the end of           *)
(* GetPluginPath are applied to each order.                                *)

MaxRecords == 3

\* The PluginInfo GetPlugins appends for a plugin directory of version v.
ScannedRecord(v) ==
    [Name |-> aws, Kind |-> ResourcePlugin, Version |-> VersionPtr(v), Size |-> 0]

ResolveRecords == {ScannedRecord(v) : v \in {V1, V2, V10}}

\* The orders in which the plugins of a set can be scanned.
ScanOrders(S) == {q \in SeqsUpTo(S, MaxRecords) : {q[i] : i \in 1..Len(q)} = S}

ResolveRequests == {NilVersion, VersionPtr(V1), VersionPtr(V2), VersionPtr(V10)}

InitResolve ==
    /\ fs = [n \in {} |-> PlainFile]
    /\ call \in UNION {{[op |-> "orders", version |-> v, first |-> o1, second |-> o2] :
                            v \in ResolveRequests,
                            o1 \in ScanOrders(S), o2 \in ScanOrders(S)} :
                        S \in (SUBSET ResolveRecords) \ {{}}}

\* GetPluginPath(resource, aws, version) on the plugins in the order o, nothing
\* on $PATH.
ResolveOrder(o, version) ==
    ResolveFromCache([err |-> "nil", plugins |-> o], ResourcePlugin, aws, version, NoFailure)

ResolveOrders ==
    /\ call.op = "orders"
    /\ call' = [op |-> "resolved", version |-> call.version,
                first |-> call.first, second |-> call.second,
                a |-> ResolveOrder(call.first, call.version),
                b |-> ResolveOrder(call.second, call.version)]
    /\ UNCHANGED fs

NextResolve == ResolveOrders

SpecResolve == InitResolve /\ [][NextResolve]_vars

\* Some plugin of the order o satisfies the request: any when no version is
\* asked for, one of a version >= the requested one otherwise.
SomeAcceptable(o, version) ==
    \E i \in 1..Len(o) :
        version = NilVersion \/ VersionGTE(o[i].Version[1], version[1])

----------------------------------------------------------------------------
(* Two caches that hold plugin directories of the same names: what the     *)
(* directories contain, and with it the metadata SetFileMetadata reads,    *)
(* differs; the same request is put to both.                               *)

\* The names of the plugin directories the two caches can hold.
ProbedNames ==
    { Dir(Descriptor(ResourcePlugin, aws, VersionPtr(V1))),
      Dir(Descriptor(ResourcePlugin, aws, VersionPtr(V2))),
      Dir(Descriptor(LanguagePlugin, aws, VersionPtr(V2))) }

\* What a plugin directory can hold: nothing, a file of one byte, or that file
\* and a subdirectory that cannot be read.
ProbedTrees ==
    { EmptyTree,
      <<"bin">> :> TreeFile(<<1>>),
      (<<"bin">> :> TreeFile(<<1>>)) @@ (<<"lib">> :> TreeLocked) }

\* The caches with the plugin directories of the names in S.
CachesOf(S) == [S -> {Directory(t) : t \in ProbedTrees}]

InitProbe ==
    \E S \in SUBSET ProbedNames :
        /\ fs \in CachesOf(S)
        /\ call \in {[op |-> "caches", other |-> g] : g \in CachesOf(S)}

\* The outcomes of GetPluginPath, HasPlugin and HasPluginGTE on cache f for the
\* descriptor d, nothing on $PATH and no failure of the environment.
Outcomes(f, d) ==
    [resolve |-> GetPluginPath(f, d.Kind, d.Name, d.Version, FALSE, NoFailure),
     exists  |-> HasPlugin(f, d, NoFailure),
     gte     |-> HasPluginGTE(f, d, NoFailure)]

\* The same request on both caches.
ProbeBoth(d) ==
    /\ call.op = "caches"
    /\ call' = [op |-> "compared", other |-> call.other, info |-> d,
                a |-> Outcomes(fs, d), b |-> Outcomes(call.other, d)]
    /\ UNCHANGED fs

ProbeRequests ==
    {Descriptor(k, aws, v) : k \in {LanguagePlugin, ResourcePlugin},
                             v \in {NilVersion, VersionPtr(V1), VersionPtr(V2)}}

NextProbe == \E d \in ProbeRequests : ProbeBoth(d)

SpecProbe == InitProbe /\ [][NextProbe]_vars

\* C21: the metadata SetFileMetadata reads never influences the outcome: two
\* caches with plugin directories of the same names, whatever their sizes and
\* whether or not reading a plugin's metadata succeeds, give the same outcomes
\* of GetPluginPath, HasPlugin and HasPluginGTE for every request.
C21_MetadataNeverInfluences ==
    call.op = "compared" => call.a = call.b

\* Every plugin directory of cache f can be read.
AllProbed(f) == \A n \in DOMAIN f : SetFileMetadataErr(f[n]) = "nil"

\* The sizes alone never influence the outcome: two caches whose plugin
\* directories can all be read give the same outcomes for every request.
C21_SizesNeverInfluence ==
    (call.op = "compared" /\ AllProbed(fs) /\ AllProbed(call.other)) => call.a = call.b

----------------------------------------------------------------------------
(* The presence check and the resolver on one cache.                       *)

\* The result r of GetPluginPath is a plugin the scan of cache f returns, of
\* the kind and name of d and of a version >= the version of d.
ResolvesAtLeast(f, d, r) ==
    /\ r.err = "nil"
    /\ \E i \in 1..Len(GetPlugins(f, NoFailure).plugins) :
          LET p == GetPlugins(f, NoFailure).plugins[i]
          IN  /\ p.Kind = d.Kind
              /\ p.Name = d.Name
              /\ VersionGTE(p.Version[1], d.Version[1])
              /\ r.dir = DirPath(p, NoFailure).path
              /\ r.path = FilePath(p, NoFailure).path

\* C22: the presence check and the resolver agree: when HasPluginGTE returned
\* true for a descriptor with a version, without a failure of the environment,
\* GetPluginPath for that kind, name and version with nothing on $PATH returns
\* a cached plugin of that kind and name whose version is >= the requested one.
C22_PresenceAgreesWithResolver ==
    (/\ call.op = "HasPluginGTE"
     /\ call.fail = NoFailure
     /\ call.ok
     /\ call.plug.Version # NilVersion)
        => ResolvesAtLeast(fs, call.plug,
                           GetPluginPath(fs, call.plug.Kind, call.plug.Name,
                                         call.plug.Version, FALSE, NoFailure))

----------------------------------------------------------------------------
(* Plugins installed from descriptors that carry no version.               *)

\* A name of alphanumerics and hyphens that ends like a version does.
VersionLikeName == <<"a", "-", "v", "1", "2", "3", "4", "5">>

NoVersionDescriptors ==
    {Descriptor(ResourcePlugin, n, NilVersion) : n \in {aws, VersionLikeName}}

NoVersionInstalls ==
    NoVersionDescriptors \cup {Descriptor(ResourcePlugin, aws, VersionPtr(v)) : v \in {V1, V2}}

\* The kinds, names and versions GetPluginPath is asked for.
NoVersionRequests ==
    {Descriptor(ResourcePlugin, n, v) : n \in {aws, <<"a">>, VersionLikeName},
                                        v \in {NilVersion, VersionPtr(V1)}}

NextNoVersion ==
    \/ \E d \in NoVersionInstalls : DoInstall(d, OneFileTarball, NoFailure)
    \/ \E d \in NoVersionInstalls : DoDelete(d, NoFailure)
    \/ \E d \in NoVersionDescriptors : DoHasPlugin(d, NoFailure)
    \/ DoGetPlugins(NoFailure)
    \/ \E d \in NoVersionRequests :
            DoGetPluginPath(d.Kind, d.Name, d.Version, FALSE, NoFailure)
    \/ Return

SpecNoVersion == Init /\ [][NextNoVersion]_vars

\* The cache f without the directories of the descriptors that carry no
\* version.
WithoutNoVersion(f) ==
    [n \in DOMAIN f \ {Dir(d) : d \in NoVersionDescriptors} |-> f[n]]

\* C23: a plugin installed from a descriptor without a version is in the
\* directory <kind>-<name>; HasPlugin of that descriptor is true; GetPlugins
\* returns no record for that directory (it returns what it would return
\* without it); and GetPluginPath never returns that directory from the cache,
\* whatever version is asked for.
C23_NoVersionInstallIsInvisible ==
    /\ (call.op = "Install" /\ call.err = "nil" /\ call.info.Version = NilVersion)
          => /\ Dir(call.info) = call.info.Kind \o <<"-">> \o call.info.Name
             /\ Dir(call.info) \in DOMAIN fs
             /\ HasPlugin(fs, call.info, NoFailure)
    /\ (call.op = "HasPlugin" /\ call.plug.Version = NilVersion
        /\ Dir(call.plug) \in DOMAIN fs)
          => call.ok
    /\ (call.op = "GetPlugins" /\ call.err = "nil")
          => call.plugins = GetPlugins(WithoutNoVersion(fs), NoFailure).plugins
    /\ (call.op = "GetPluginPath" /\ call.err = "nil")
          => \A d \in NoVersionDescriptors :
                Dir(d) \in DOMAIN fs => call.dir # DirPath(d, NoFailure).path

====
